---- MODULE Spec2Model ----
(***************************************************************************)
(* Model of recommendationservice/recommendation_server_svd.py: the        *)
(* start-up sequence of __main__, the profiler retry loop, the gRPC        *)
(* handlers ListRecommendations / Check / Watch running on the thread      *)
(* pool, and the keep-alive loop with its KeyboardInterrupt handler.       *)
(***************************************************************************)
EXTENDS Integers, Sequences, FiniteSets, TLC

VARIABLES
    env,                \* os.environ
    pc,                 \* position of the main thread
    retry,              \* loop variable of initStackdriverProfiling
    profiler,           \* outcome of the profiler block
    tracer_interceptor, \* the interceptor handed to grpc.server
    debugger,           \* outcome of the debugger block
    port,
    catalog_addr,
    server,             \* life cycle of the grpc server object
    exit_status,        \* how the process ended, "running" while it has not
    log,                \* messages passed to logger, oldest first
    train_users,        \* number of distinct users of the training split
    test,               \* held-out rows <<userID, itemID>>
    model,              \* the fitted SVD: estimate per user and item
    calls,              \* ListRecommendations calls seen by the server
    health              \* outcome of the latest health RPC

vars == <<env, pc, retry, profiler, tracer_interceptor, debugger, port,
          catalog_addr, server, exit_status, log, train_users, test, model,
          calls, health>>

bootVars == <<env, pc, retry, profiler, tracer_interceptor, debugger, port,
              catalog_addr, exit_status>>

sharedVars == <<train_users, test, model>>

(***************************************************************************)
(* hashlib.sha1 over bytes.  32-bit words are pairs <<hi, lo>> of 16-bit   *)
(* halves so that every intermediate value stays inside TLC's integers.    *)
(***************************************************************************)
Half == 65536

RECURSIVE And16(_, _, _)
And16(a, b, n) ==
    IF n = 0 THEN 0
    ELSE (a % 2) * (b % 2) + 2 * And16(a \div 2, b \div 2, n - 1)

RECURSIVE Xor16(_, _, _)
Xor16(a, b, n) ==
    IF n = 0 THEN 0
    ELSE (((a % 2) + (b % 2)) % 2) + 2 * Xor16(a \div 2, b \div 2, n - 1)

WAnd(p, q) == <<And16(p[1], q[1], 16), And16(p[2], q[2], 16)>>

WXor(p, q) == <<Xor16(p[1], q[1], 16), Xor16(p[2], q[2], 16)>>

WOr(p, q) ==
    <<p[1] + q[1] - And16(p[1], q[1], 16), p[2] + q[2] - And16(p[2], q[2], 16)>>

WNot(p) == <<Half - 1 - p[1], Half - 1 - p[2]>>

\* addition modulo 2^32
WAdd(p, q) ==
    LET lo == p[2] + q[2]
        hi == p[1] + q[1] + (lo \div Half)
    IN  <<hi % Half, lo % Half>>

Pow2(n) == 2 ^ n

\* rotate left by n bits, 0 < n < 16
RotlSmall(p, n) ==
    LET up == Pow2(n)
        dn == Pow2(16 - n)
    IN  <<((p[1] * up) % Half) + (p[2] \div dn),
          ((p[2] * up) % Half) + (p[1] \div dn)>>

\* rotate left by n bits, 0 < n < 32
Rotl(p, n) ==
    IF n < 16 THEN RotlSmall(p, n)
    ELSE IF n = 16 THEN <<p[2], p[1]>>
    ELSE RotlSmall(<<p[2], p[1]>>, n - 16)

\* message padding: 0x80, zeros up to 56 mod 64, then the bit length on 64 bits
RECURSIVE Zeros(_)
Zeros(n) == IF n = 0 THEN <<>> ELSE <<0>> \o Zeros(n - 1)

PadLen(len) == (119 - (len % 64)) % 64

BitLenBytes(len) ==
    LET bits == len * 8
    IN  <<0, 0, 0, 0, (bits \div 16777216) % 256, (bits \div 65536) % 256,
          (bits \div 256) % 256, bits % 256>>

Pad(bytes) ==
    bytes \o <<128>> \o Zeros(PadLen(Len(bytes))) \o BitLenBytes(Len(bytes))

\* the sixteen big-endian words of block number blk (from 0) of a padded message
BlockWords(padded, blk) ==
    [t \in 1..16 |->
        LET o == blk * 64 + (t - 1) * 4
        IN  <<padded[o + 1] * 256 + padded[o + 2],
              padded[o + 3] * 256 + padded[o + 4]>>]

\* message schedule: W[t] = rotl1(W[t-3] ^ W[t-8] ^ W[t-14] ^ W[t-16]);
\* Schedule(w, lo, hi) extends w from lo to hi words, by halves to keep the
\* evaluation shallow
RECURSIVE Schedule(_, _, _)
Schedule(w, lo, hi) ==
    IF Len(w) >= hi THEN w
    ELSE IF hi - lo = 1
         THEN Append(w, Rotl(WXor(WXor(w[hi - 3], w[hi - 8]),
                                  WXor(w[hi - 14], w[hi - 16])), 1))
    ELSE LET mid == (lo + hi) \div 2
         IN  Schedule(Schedule(w, lo, mid), mid, hi)

\* round function and constant for round t (from 0)
RoundF(t, b, c, d) ==
    IF t < 20 THEN WOr(WAnd(b, c), WAnd(WNot(b), d))
    ELSE IF t < 40 THEN WXor(WXor(b, c), d)
    ELSE IF t < 60 THEN WOr(WOr(WAnd(b, c), WAnd(b, d)), WAnd(c, d))
    ELSE WXor(WXor(b, c), d)

RoundK(t) ==
    IF t < 20 THEN <<23170, 31129>>
    ELSE IF t < 40 THEN <<28377, 60321>>
    ELSE IF t < 60 THEN <<36635, 48348>>
    ELSE <<51810, 49622>>

\* one round on s = <<a, b, c, d, e>>, t from 0
Round(s, w, t) ==
    LET tmp == WAdd(WAdd(WAdd(WAdd(Rotl(s[1], 5),
                                   RoundF(t, s[2], s[3], s[4])),
                              s[5]),
                         RoundK(t)),
                    w[t + 1])
    IN  <<tmp, s[1], Rotl(s[2], 30), s[3], s[4]>>

\* rounds lo .. hi-1, by halves to keep the evaluation shallow
RECURSIVE Rounds(_, _, _, _)
Rounds(s, w, lo, hi) ==
    IF Len(s) # 5 \/ hi <= lo THEN s
    ELSE IF hi - lo = 1 THEN Round(s, w, lo)
    ELSE LET mid == (lo + hi) \div 2
         IN  Rounds(Rounds(s, w, lo, mid), w, mid, hi)

H0 == << <<26437, 8961>>, <<61389, 43913>>, <<39098, 56574>>,
         <<4146, 21622>>, <<50130, 57840>> >>

RECURSIVE Compress(_, _, _)
Compress(h, padded, blk) ==
    IF blk * 64 >= Len(padded) THEN h
    ELSE LET s == Rounds(h, Schedule(BlockWords(padded, blk), 16, 80), 0, 80)
         IN  Compress([i \in 1..5 |-> WAdd(h[i], s[i])], padded, blk + 1)

\* the digest as five 32-bit words
Sha1(bytes) == Compress(H0, Pad(bytes), 0)

(***************************************************************************)
(* request.user_id.encode("utf-8"), .hexdigest() and int(..., 16) % n      *)
(***************************************************************************)
\* a token is a sequence of Unicode code points
Utf8Char(cp) ==
    IF cp < 128 THEN <<cp>>
    ELSE IF cp < 2048 THEN <<192 + (cp \div 64), 128 + (cp % 64)>>
    ELSE IF cp < 65536
         THEN <<224 + (cp \div 4096), 128 + ((cp \div 64) % 64), 128 + (cp % 64)>>
    ELSE <<240 + (cp \div 262144), 128 + ((cp \div 4096) % 64),
           128 + ((cp \div 64) % 64), 128 + (cp % 64)>>

RECURSIVE Utf8Encode(_)
Utf8Encode(token) ==
    IF token = <<>> THEN <<>>
    ELSE Utf8Char(Head(token)) \o Utf8Encode(Tail(token))

HexChars ==
    <<"0", "1", "2", "3", "4", "5", "6", "7", "8", "9", "a", "b", "c", "d", "e", "f">>

\* four lowercase hex characters of a 16-bit value
Hex16(v) ==
    <<HexChars[(v \div 4096) + 1], HexChars[((v \div 256) % 16) + 1],
      HexChars[((v \div 16) % 16) + 1], HexChars[(v % 16) + 1]>>

\* the 40-character hexadecimal digest
HexDigest(bytes) ==
    LET h == Sha1(bytes)
    IN  Hex16(h[1][1]) \o Hex16(h[1][2]) \o Hex16(h[2][1]) \o Hex16(h[2][2]) \o
        Hex16(h[3][1]) \o Hex16(h[3][2]) \o Hex16(h[4][1]) \o Hex16(h[4][2]) \o
        Hex16(h[5][1]) \o Hex16(h[5][2])

HexValue(ch) == (CHOOSE i \in 1..16 : HexChars[i] = ch) - 1

\* the value of the i-th group of four hex characters
HexGroup(hex, i) ==
    (HexValue(hex[(4 * i) - 3]) * 4096) + (HexValue(hex[(4 * i) - 2]) * 256) +
    (HexValue(hex[(4 * i) - 1]) * 16) + HexValue(hex[4 * i])

\* int(hex, 16) % n for the 40 characters of a SHA-1 digest; the 160-bit
\* integer is never built, the remainder is carried group by group (Horner),
\* which yields the same value
IntMod16(hex, n) ==
    LET r1 == HexGroup(hex, 1) % n
        r2 == ((r1 * Half) + HexGroup(hex, 2)) % n
        r3 == ((r2 * Half) + HexGroup(hex, 3)) % n
        r4 == ((r3 * Half) + HexGroup(hex, 4)) % n
        r5 == ((r4 * Half) + HexGroup(hex, 5)) % n
        r6 == ((r5 * Half) + HexGroup(hex, 6)) % n
        r7 == ((r6 * Half) + HexGroup(hex, 7)) % n
        r8 == ((r7 * Half) + HexGroup(hex, 8)) % n
        r9 == ((r8 * Half) + HexGroup(hex, 9)) % n
        r10 == ((r9 * Half) + HexGroup(hex, 10)) % n
    IN  r10

\* caller tokens (request.user_id), as code points: "", "abc", "a", "0",
\* "\u00e9" (2 UTF-8 bytes), "\u20ac" (3 bytes), "\U0001F600" (4 bytes)
Tokens ==
    {<<>>, <<97, 98, 99>>, <<97>>, <<48>>, <<233>>, <<8364>>, <<128512>>}

\* hashlib.sha1(token.encode("utf-8")).hexdigest(), evaluated once per token
TokenHex == [t \in Tokens |-> HexDigest(Utf8Encode(t))]

\* the same with the increment taken before the remainder
ResolveUserBroken(token, n) ==
    (1 + IntMod16(TokenHex[token], n)) % n

\* user_id = 1 + int(sha1(token.encode("utf-8")).hexdigest(), 16) % train_users
ResolveUser(token, n) ==
    1 + IntMod16(TokenHex[token], n)

(***************************************************************************)
(* Bounds of the model                                                     *)
(***************************************************************************)
MaxUsers == 2         \* train_users ranges over 1..MaxUsers
MaxItems == 1         \* item ids of the held-out rows, 1..MaxItems
MaxRows == 1          \* rows of the held-out set
MaxCalls == 2         \* ListRecommendations calls per run
MaxResolveUsers == 12 \* train_users when only identity resolution is run

(***************************************************************************)
(* Module-level data (lines 54-89): TOP_K, the split and the fitted model  *)
(***************************************************************************)
TOP_K == 10

\* an itemID on which the scoring backend raises (a malformed row)
MalformedItem == 0

\* the held-out sets of at most m rows the split may leave for n users
RECURSIVE TestSets(_, _)
TestSets(n, m) ==
    IF m = 0 THEN {{}}
    ELSE LET smaller == TestSets(n, m - 1)
         IN  smaller \cup {rows \cup {r} : rows \in smaller,
                                           r \in (1..n) \X (0..MaxItems)}

\* model.predict(user, item).est of the fitted SVD, on the rating scale 1..5
SvdEst(n) == [u \in 1..n, i \in 1..MaxItems |-> 1 + ((u + (2 * i)) % 2) + (u % 2)]

DataInit(maxUsers, maxRows) ==
    /\ train_users \in 1..maxUsers
    /\ test \in TestSets(train_users, maxRows)
    /\ model = SvdEst(train_users)

(***************************************************************************)
(* os.environ                                                              *)
(***************************************************************************)
Unset == "<unset>"

\* name in os.environ
InEnviron(name) == env[name] # Unset

\* os.environ.get(name, default)
EnvGet(name, default) == IF env[name] = Unset THEN default ELSE env[name]

Environments ==
    [DISABLE_PROFILER : {Unset, "1"},
     DISABLE_TRACING : {Unset, "1"},
     DISABLE_DEBUGGER : {Unset, "1"},
     PORT : {Unset, "9090"},
     PRODUCT_CATALOG_SERVICE_ADDR : {Unset, "", "productcatalogservice:3550"}]

(***************************************************************************)
(* ListRecommendations calls                                               *)
(***************************************************************************)
\* st: "none" (not sent), "queued" (submitted to the thread pool),
\* "scoring" (line 135 done), "building" (line 138 done), "done" (response
\* returned), "failed" (the handler raised), "aborted" (cancelled by stop)
NoCall ==
    [st |-> "none", token |-> <<>>, user_id |-> 0, predictions |-> {},
     response |-> <<>>]

NoHealth == [rpc |-> "none", result |-> "none"]

(***************************************************************************)
(* State at the first statement of __main__ (line 164)                     *)
(***************************************************************************)
Init ==
    /\ env \in Environments
    /\ pc = "profiler"
    /\ retry = 0
    /\ profiler = "unset"
    /\ tracer_interceptor = "unset"
    /\ debugger = "unset"
    /\ port = "unset"
    /\ catalog_addr = "unset"
    /\ server = "none"
    /\ exit_status = "running"
    /\ log = <<"initializing recommendationservice">>
    /\ DataInit(MaxUsers, MaxRows)
    /\ calls = [c \in 1..MaxCalls |-> NoCall]
    /\ health = NoHealth

(***************************************************************************)
(* Profiler block (lines 166-173) and initStackdriverProfiling (94-122)    *)
(***************************************************************************)
\* range(1, 4)
RetryStop == 4

\* the bound of "if (retry < 4)"
RetrySleepBelow == 4

\* the for statement advances to the next value of retry, or the function
\* returns when the range is exhausted
ProfilerLoopNext ==
    IF retry + 1 < RetryStop
    THEN /\ retry' = retry + 1
         /\ pc' = "prof_start"
         /\ UNCHANGED profiler
    ELSE /\ retry' = retry
         /\ pc' = "tracing"
         /\ profiler' = "failed"

ProfilerBlock ==
    /\ pc = "profiler"
    /\ IF InEnviron("DISABLE_PROFILER")
       THEN /\ log' = Append(log, "Profiler disabled.")
            /\ profiler' = "disabled"
            /\ pc' = "tracing"
            /\ UNCHANGED retry
       ELSE /\ log' = Append(log, "Profiler enabled.")
            /\ retry' = 1
            /\ pc' = "prof_start"
            /\ UNCHANGED profiler
    /\ UNCHANGED <<env, tracer_interceptor, debugger, port, catalog_addr,
                   server, exit_status, sharedVars, calls, health>>

\* one googlecloudprofiler.start attempt; BaseException is caught
ProfilerStart ==
    /\ pc = "prof_start"
    /\ \E started \in BOOLEAN :
          IF started
          THEN /\ log' = Append(log, "Successfully started Stackdriver Profiler.")
               /\ profiler' = "started"
               /\ pc' = "tracing"
               /\ UNCHANGED retry
          ELSE IF retry < RetrySleepBelow
          THEN /\ log' = log \o <<"Unable to start Stackdriver Profiler Python agent.",
                                  "Sleeping to retry Stackdriver Profiler agent initialization">>
               /\ pc' = "prof_sleep"
               /\ UNCHANGED <<retry, profiler>>
          ELSE /\ log' = log \o <<"Unable to start Stackdriver Profiler Python agent.",
                                  "Could not initialize Stackdriver Profiler after retrying, giving up">>
               /\ ProfilerLoopNext
    /\ UNCHANGED <<env, tracer_interceptor, debugger, port, catalog_addr,
                   server, exit_status, sharedVars, calls, health>>

\* time.sleep(1) returns
ProfilerWake ==
    /\ pc = "prof_sleep"
    /\ ProfilerLoopNext
    /\ UNCHANGED <<env, tracer_interceptor, debugger, port, catalog_addr,
                   server, exit_status, log, sharedVars, calls, health>>

(***************************************************************************)
(* Tracing block (lines 175-188)                                           *)
(***************************************************************************)
\* what building the sampler, exporter and interceptor can do
TracerOutcomes == {"ok", "DefaultCredentialsError", "KeyError", "Exception"}

\* except (KeyError, DefaultCredentialsError)
TracerCaught(exc) == exc \in {"KeyError", "DefaultCredentialsError"}

TracingBlock ==
    /\ pc = "tracing"
    /\ IF InEnviron("DISABLE_TRACING")
       THEN /\ log' = Append(log, "Tracing disabled.")
            /\ tracer_interceptor' = "default"
            /\ pc' = "debugger"
            /\ UNCHANGED exit_status
       ELSE \E outcome \in TracerOutcomes :
               IF outcome = "ok"
               THEN /\ log' = Append(log, "Tracing enabled.")
                    /\ tracer_interceptor' = "stackdriver"
                    /\ pc' = "debugger"
                    /\ UNCHANGED exit_status
               ELSE IF TracerCaught(outcome)
               THEN /\ log' = log \o <<"Tracing enabled.", "Tracing disabled.">>
                    /\ tracer_interceptor' = "default"
                    /\ pc' = "debugger"
                    /\ UNCHANGED exit_status
               ELSE \* no handler: the exception ends the process
                    /\ log' = Append(log, "Tracing enabled.")
                    /\ pc' = "exited"
                    /\ exit_status' = "uncaught_exception"
                    /\ UNCHANGED tracer_interceptor
    /\ UNCHANGED <<env, retry, profiler, debugger, port, catalog_addr, server,
                   sharedVars, calls, health>>

(***************************************************************************)
(* Debugger block (lines 190-205)                                          *)
(***************************************************************************)
DebuggerBlock ==
    /\ pc = "debugger"
    /\ IF InEnviron("DISABLE_DEBUGGER")
       THEN /\ log' = Append(log, "Debugger disabled.")
            /\ debugger' = "disabled"
       ELSE \E enabled \in BOOLEAN :
               IF enabled
               THEN /\ log' = Append(log, "Debugger enabled.")
                    /\ debugger' = "enabled"
               ELSE /\ log' = log \o <<"Debugger enabled.",
                                       "Could not enable debugger", "None">>
                    /\ debugger' = "failed"
    /\ pc' = "config"
    /\ UNCHANGED <<env, retry, profiler, tracer_interceptor, port,
                   catalog_addr, server, exit_status, sharedVars, calls,
                   health>>

(***************************************************************************)
(* Configuration and server construction (lines 207-223)                   *)
(***************************************************************************)
Configure ==
    /\ pc = "config"
    /\ port' = EnvGet("PORT", "8080")
    /\ catalog_addr' = EnvGet("PRODUCT_CATALOG_SERVICE_ADDR", "")
    /\ IF catalog_addr' = ""
       THEN /\ pc' = "exited"
            /\ exit_status' = "config_error"
            /\ UNCHANGED <<log, server>>
       ELSE /\ log' = Append(log, "product catalog address")
            /\ server' = "created"
            /\ pc' = "listen"
            /\ UNCHANGED exit_status
    /\ UNCHANGED <<env, retry, profiler, tracer_interceptor, debugger,
                   sharedVars, calls, health>>

\* lines 226-227
Listen ==
    /\ pc = "listen"
    /\ log' = Append(log, "listening on port")
    /\ server' = "bound"
    /\ pc' = "start"
    /\ UNCHANGED <<env, retry, profiler, tracer_interceptor, debugger, port,
                   catalog_addr, exit_status, sharedVars, calls, health>>

\* line 228, then the keep-alive loop
Start ==
    /\ pc = "start"
    /\ server' = "serving"
    /\ pc' = "keepalive"
    /\ UNCHANGED <<env, retry, profiler, tracer_interceptor, debugger, port,
                   catalog_addr, exit_status, log, sharedVars, calls, health>>

NextBoot ==
    \/ ProfilerBlock
    \/ ProfilerStart
    \/ ProfilerWake
    \/ TracingBlock
    \/ DebuggerBlock
    \/ Configure
    \/ Listen
    \/ Start

\* the start-up of the process, up to the keep-alive loop
SpecBoot == Init /\ [][NextBoot]_vars

(***************************************************************************)
(* RecommendationService.ListRecommendations (lines 126-152), run by the   *)
(* workers of futures.ThreadPoolExecutor(max_workers=10)                   *)
(***************************************************************************)
max_workers == 10

\* caller tokens of the calls sent to the running server: "" and "abc"
ServeTokens == {<<>>, <<97, 98, 99>>}

Running == {c \in 1..MaxCalls : calls[c].st \in {"scoring", "building"}}

\* test[test['userID'] == user_id]
UserRows(u) == {r \in test : r[1] = u}

\* compute_ranking_predictions raises on a malformed row
ScoringRaises(rows) == \E r \in rows : r[2] = MalformedItem

\* compute_ranking_predictions: one estimate per user and item of the rows
RankingPredictions(rows) == {<<r[2], model[r[1], r[2]]>> : r \in rows}

\* the predictions ranked by descending estimate, ties by ascending item id,
\* cut to the first k, as item id strings
BestPrediction(predictions) ==
    CHOOSE b \in predictions :
        \A o \in predictions : b[2] > o[2] \/ (b[2] = o[2] /\ b[1] <= o[1])

RECURSIVE Ranked(_, _)
Ranked(predictions, k) ==
    IF predictions = {} \/ k = 0 THEN <<>>
    ELSE LET b == BestPrediction(predictions)
         IN  <<ToString(b[1])>> \o Ranked(predictions \ {b}, k - 1)

\* a handler that answers with the ranked predictions and nothing else
prod_list_ranked(predictions) == Ranked(predictions, TOP_K)

\* lines 145-146; the predictions are not used
prod_list(predictions) ==
    <<"1YMWWN1N4O", "L9ECAV7KIM", "LS4PSXUNUM", "9SIQT8TOJO", "OLJCESPC7Z">>

\* a client sends a call; the server hands it to the thread pool
Submit ==
    /\ server = "serving"
    /\ \E c \in 1..MaxCalls, t \in ServeTokens :
          /\ calls[c].st = "none"
          /\ \A d \in 1..(c - 1) : calls[d].st # "none"
          /\ calls' = [calls EXCEPT ![c] = [NoCall EXCEPT !.st = "queued", !.token = t]]
    /\ UNCHANGED <<bootVars, server, log, sharedVars, health>>

\* a free worker takes the call and runs lines 135-136
Resolve(c) ==
    /\ calls[c].st = "queued"
    /\ Cardinality(Running) < max_workers
    /\ calls' = [calls EXCEPT ![c].st = "scoring",
                              ![c].user_id = ResolveUser(calls[c].token, train_users)]
    /\ UNCHANGED <<bootVars, server, log, sharedVars, health>>

\* a scoring step that consumes the rows it scored from the shared set
ScoreConsuming(c) ==
    /\ calls[c].st = "scoring"
    /\ LET rows == UserRows(calls[c].user_id)
       IN  /\ IF ScoringRaises(rows)
              THEN calls' = [calls EXCEPT ![c].st = "failed"]
              ELSE calls' = [calls EXCEPT ![c].st = "building",
                                          ![c].predictions = RankingPredictions(rows)]
           /\ test' = test \ rows
    /\ UNCHANGED <<bootVars, server, log, train_users, model, health>>

\* lines 138-139; an exception leaves the handler
Score(c) ==
    /\ calls[c].st = "scoring"
    /\ LET rows == UserRows(calls[c].user_id)
       IN  IF ScoringRaises(rows)
           THEN calls' = [calls EXCEPT ![c].st = "failed"]
           ELSE calls' = [calls EXCEPT ![c].st = "building",
                                       ![c].predictions = RankingPredictions(rows)]
    /\ UNCHANGED <<bootVars, server, log, sharedVars, health>>

\* lines 145-152
Respond(c) ==
    /\ calls[c].st = "building"
    /\ log' = Append(log, "[Recv ListRecommendations]")
    /\ calls' = [calls EXCEPT ![c].st = "done",
                              ![c].response = prod_list(calls[c].predictions)]
    /\ UNCHANGED <<bootVars, server, sharedVars, health>>

(***************************************************************************)
(* Health RPCs (lines 154-160)                                             *)
(***************************************************************************)
\* the members of grpc_health.v1.health_pb2.HealthCheckResponse.ServingStatus
ServingStatus == {"UNKNOWN", "SERVING", "NOT_SERVING", "SERVICE_UNKNOWN"}

\* health_pb2.HealthCheckResponse.<name>; a missing attribute raises
StatusAttribute(name) == IF name \in ServingStatus THEN name ELSE "AttributeError"

Check ==
    /\ server = "serving"
    /\ health' = [rpc |-> "Check", result |-> StatusAttribute("SERVING")]
    /\ UNCHANGED <<bootVars, server, log, sharedVars, calls>>

Watch ==
    /\ server = "serving"
    /\ health' = [rpc |-> "Watch", result |-> StatusAttribute("UNIMPLEMENTED")]
    /\ UNCHANGED <<bootVars, server, log, sharedVars, calls>>

(***************************************************************************)
(* Keep-alive loop and KeyboardInterrupt (lines 230-235)                   *)
(***************************************************************************)
\* server.stop(grace): with a grace of 0 every call still active is aborted
StopCall(call, grace) ==
    IF grace = 0 /\ call.st \in {"queued", "scoring", "building"}
    THEN [call EXCEPT !.st = "aborted"]
    ELSE call

Interrupt ==
    /\ pc = "keepalive"
    /\ server' = "stopped"
    /\ calls' = [c \in 1..MaxCalls |-> StopCall(calls[c], 0)]
    /\ pc' = "exited"
    /\ exit_status' = "interrupted"
    /\ UNCHANGED <<env, retry, profiler, tracer_interceptor, debugger, port,
                   catalog_addr, log, sharedVars, health>>

(***************************************************************************)
(* The running server: state once server.start() has returned, here after  *)
(* a start-up with the three optional subsystems disabled                  *)
(***************************************************************************)
ServingEnv ==
    [DISABLE_PROFILER |-> "1", DISABLE_TRACING |-> "1", DISABLE_DEBUGGER |-> "1",
     PORT |-> Unset, PRODUCT_CATALOG_SERVICE_ADDR |-> "productcatalogservice:3550"]

ServingLog ==
    <<"initializing recommendationservice", "Profiler disabled.",
      "Tracing disabled.", "Debugger disabled.", "product catalog address",
      "listening on port">>

Started ==
    /\ env = ServingEnv
    /\ pc = "keepalive"
    /\ retry = 0
    /\ profiler = "disabled"
    /\ tracer_interceptor = "default"
    /\ debugger = "disabled"
    /\ port = "8080"
    /\ catalog_addr = "productcatalogservice:3550"
    /\ server = "serving"
    /\ exit_status = "running"
    /\ log = ServingLog
    /\ health = NoHealth

InitServe ==
    /\ Started
    /\ DataInit(MaxUsers, MaxRows)
    /\ calls = [c \in 1..MaxCalls |-> NoCall]

NextServe ==
    \/ Submit
    \/ \E c \in 1..MaxCalls : Resolve(c)
    \/ \E c \in 1..MaxCalls : Score(c)
    \/ \E c \in 1..MaxCalls : Respond(c)
    \/ Check
    \/ Watch
    \/ Interrupt

\* the server from the moment it serves until it is interrupted
SpecServe == InitServe /\ [][NextServe]_vars

NextCalls ==
    \/ Submit
    \/ \E c \in 1..MaxCalls : Resolve(c)
    \/ \E c \in 1..MaxCalls : Score(c)
    \/ \E c \in 1..MaxCalls : Respond(c)

\* ListRecommendations calls interleaving on the pool, no shutdown
SpecCalls == InitServe /\ [][NextCalls]_vars

(***************************************************************************)
(* Identity resolution alone: one queued call, any token, any train_users  *)
(***************************************************************************)
InitResolve ==
    /\ Started
    /\ DataInit(MaxResolveUsers, 0)
    /\ \E t \in Tokens :
          calls = [c \in 1..MaxCalls |->
                      IF c = 1 THEN [NoCall EXCEPT !.st = "queued", !.token = t]
                      ELSE NoCall]

NextResolve == \E c \in 1..MaxCalls : Resolve(c)

SpecResolve == InitResolve /\ [][NextResolve]_vars

(***************************************************************************)
(* Properties                                                              *)
(***************************************************************************)
FallbackList ==
    <<"1YMWWN1N4O", "L9ECAV7KIM", "LS4PSXUNUM", "9SIQT8TOJO", "OLJCESPC7Z">>

Finished(c) == calls[c].st \in {"done", "failed"}

CallIds == 1..MaxCalls

\* C1: a call whose scoring step raises still returns a normal response
\* carrying the static fallback list; the exception never leaves the handler.
C1_ScoringErrorFallsBack ==
    \A c \in CallIds :
        (Finished(c) /\ ScoringRaises(UserRows(calls[c].user_id)))
            => (calls[c].st = "done" /\ calls[c].response = FallbackList)

\* C2: a call whose user has held-out rows and whose scoring succeeds returns
\* the scored candidates by descending score, ties by ascending item id, cut
\* to the first TOP_K.
C2_RankedTopK ==
    \A c \in CallIds :
        (calls[c].st = "done" /\ UserRows(calls[c].user_id) # {})
            => calls[c].response = Ranked(calls[c].predictions, TOP_K)

\* C3: a call whose user has no held-out rows (and whose scoring did not
\* raise) returns exactly the fixed five product ids, in order.
C3_EmptyCandidatesFallback ==
    \A c \in CallIds :
        (calls[c].st = "done" /\ UserRows(calls[c].user_id) = {})
            => calls[c].response = FallbackList

C3_Witness ==
    \E c \in CallIds :
        /\ calls[c].st = "done"
        /\ UserRows(calls[c].user_id) = {}
        /\ test # {}

\* C4: with PRODUCT_CATALOG_SERVICE_ADDR unset or empty the listener is never
\* bound nor the server started, and when the process has ended it has ended
\* with the configuration error, whatever the optional subsystems did.
C4_MissingCatalogAddrIsConfigError ==
    EnvGet("PRODUCT_CATALOG_SERVICE_ADDR", "") = ""
        => /\ server \notin {"bound", "serving", "stopped"}
           /\ (pc = "exited" => exit_status = "config_error")

\* C5: no failure of the profiler, tracer or debugger initialization ends the
\* process; during start-up the only fatal condition is the missing catalog
\* address.
C5_OptionalInitNeverFatal ==
    exit_status \in {"running", "config_error"}

\* C6: every call in flight when the interrupt arrives completes; stopping the
\* server aborts none.
C6_ShutdownDrainsCalls ==
    \A c \in CallIds : calls[c].st # "aborted"

\* C7: initStackdriverProfiling makes at most three attempts and does not
\* sleep to retry after the third failed one.
C7_NoSleepAfterLastAttempt ==
    /\ retry <= 3
    /\ ~(pc = "prof_sleep" /\ retry = 3)

\* C8: every Check answers SERVING and every Watch answers UNIMPLEMENTED.
C8_HealthAnswers ==
    /\ health.rpc = "Check" => health.result = "SERVING"
    /\ health.rpc = "Watch" => health.result = "UNIMPLEMENTED"

\* 1 + (SHA-1 of the UTF-8 token as an integer, mod n) for n = 1..7, computed
\* with hashlib for the tokens of the model
ExpectedUser ==
    {
    <<<<>>, <<1, 2, 2, 2, 1, 2, 4>>>>,
    <<<<97, 98, 99>>, <<1, 2, 3, 2, 3, 6, 5>>>>,
    <<<<97>>, <<1, 1, 2, 1, 3, 5, 5>>>>,
    <<<<48>>, <<1, 1, 1, 1, 4, 1, 5>>>>,
    <<<<233>>, <<1, 2, 2, 2, 1, 2, 7>>>>,
    <<<<8364>>, <<1, 1, 3, 3, 5, 3, 4>>>>,
    <<<<128512>>, <<1, 1, 2, 1, 5, 5, 6>>>>
    }

\* C9: for every token, the empty one included, and every train_users >= 1
\* the resolved user id is 1 + (SHA-1 digest mod train_users), and so lies in
\* 1..train_users.
C9_ResolveInRange ==
    \A c \in CallIds :
        calls[c].st = "scoring"
            => /\ calls[c].user_id >= 1
               /\ calls[c].user_id <= train_users
               /\ \A e \in ExpectedUser :
                     (e[1] = calls[c].token /\ train_users <= Len(e[2]))
                         => calls[c].user_id = e[2][train_users]

C9_Witness ==
    \E c \in CallIds :
        /\ calls[c].st = "scoring"
        /\ calls[c].token = <<>>
        /\ train_users = 7
        /\ calls[c].user_id = 4

\* what a call with this token yields when it is the only one
SoloOutcome(token) ==
    LET rows == UserRows(ResolveUser(token, train_users))
    IN  IF ScoringRaises(rows)
        THEN [st |-> "failed", response |-> <<>>]
        ELSE [st |-> "done", response |-> prod_list(RankingPredictions(rows))]

\* handler statements a call still has to run
StepsLeft(c) ==
    CASE calls[c].st = "queued" -> 3
      [] calls[c].st = "scoring" -> 2
      [] calls[c].st = "building" -> 1
      [] OTHER -> 0

\* a call is never held up: a queued call can be taken unless every worker is
\* busy, a call held by a worker can run its next statement
NotBlocked(c) ==
    /\ calls[c].st = "queued"
          => (ENABLED Resolve(c) \/ Cardinality(Running) >= max_workers)
    /\ calls[c].st = "scoring" => ENABLED Score(c)
    /\ calls[c].st = "building" => ENABLED Respond(c)

\* C10: under any interleaving of ListRecommendations calls no step writes
\* model, test or train_users; every call completes (it is never held up and
\* each step of it leaves it fewer statements to run); and its outcome is the one the
\* same token yields alone.
C10_ConcurrentCallsIndependent ==
    /\ [][/\ UNCHANGED sharedVars
          /\ \A c \in CallIds :
                (calls[c].st # "none" /\ calls'[c] # calls[c])
                    => StepsLeft(c)' < StepsLeft(c)]_vars
    /\ [](\A c \in CallIds :
            /\ NotBlocked(c)
            /\ Finished(c)
                  => /\ calls[c].st = SoloOutcome(calls[c].token).st
                     /\ calls[c].response = SoloOutcome(calls[c].token).response)

C10_Witness ==
    \E c, d \in CallIds :
        /\ c # d
        /\ calls[c].st = "done"
        /\ calls[d].st \in {"scoring", "building"}
        /\ calls[c].token = calls[d].token
        /\ test # {}

====
